---- MODULE Spec2Model ----
(***************************************************************************)
(* Tool-calling orchestration of workshop-starter-mcp-healthcare:          *)
(*   BedrockConverseToolManager (src/bedrock_tool_manager.py), the tool    *)
(*   registry; BedrockConverse (src/mcp/bedrock_converse.py), the          *)
(*   conversation driver; main (src/main.py), the prompt loop.             *)
(*                                                                         *)
(* A Python str is modelled as a sequence of pieces (strings), so that     *)
(* f-string formatting is concatenation (\o) and '' is <<>>.  A tool name  *)
(* is a sequence of one-character pieces, so that str.replace acts on its  *)
(* characters.  A Python dict is a function on its keys; _tools, whose     *)
(* iteration order matters, is a sequence of [key, value] entries in       *)
(* insertion order.                                                        *)
(***************************************************************************)
EXTENDS Integers, Sequences, FiniteSets, TLC

VARIABLES
    _tools,         \* BedrockConverseToolManager._tools (ordered dict)
    _name_mapping,  \* BedrockConverseToolManager._name_mapping
    registered,     \* the arguments of every register_tool call so far, in order
    nops,           \* number of calls made by a client of the registry API
    toolConfig,     \* the value returned by the last get_tools call
    calls,          \* the executor invocations so far, in order
    tool_result,    \* the value returned by the last execute_tool call
    payload,        \* the request of the last execute_tool call
    outcome,        \* how the executor awaited by that call ended
    messages,       \* BedrockConverse.messages
    pc,             \* position of the single cooperative task
    attempt,        \* loop variable of _get_converse_response
    retry_delay,    \* local of _get_converse_response
    slept,          \* time.sleep total of the current _get_converse_response
    attempts,       \* client.converse calls of the current _get_converse_response
    response,       \* the response being handled by _handle_response
    idx,            \* position of the for loop over the response content
    tool_response,  \* local of _handle_response
    ret,            \* the value returned by invoke_with_prompt to main
    exc,            \* the last exception raised by client.converse
    nresp,          \* number of responses returned by the endpoint so far
    nprompt,        \* number of invoke_with_prompt calls so far
    nrounds,        \* number of responses with stop reason tool_use so far
    tools,          \* main: the tools listed by the MCP server
    regIdx          \* main: position of the registration for loop

registry == <<_tools, _name_mapping, registered>>
execution == <<calls, tool_result, payload, outcome>>
driver == <<messages, attempt, retry_delay, slept, attempts, response, idx,
            tool_response, ret, exc, nresp, nprompt, nrounds>>
mainvars == <<tools, regIdx>>
vars == <<registry, nops, toolConfig, execution, driver, pc, mainvars>>

(***************************************************************************)
(* Bounds of the model.                                                    *)
(***************************************************************************)
MaxOps == 3         \* calls made by a client of the registry API
MaxResponses == 2   \* responses of the model endpoint in one session

\* None where a dict is expected, and where an exception is expected
None == [type |-> "NoneType"]

NoError == "None"

\* a str where None is possible too
StrValue(s) == [type |-> "str", value |-> s]
EmptyDict == [k \in {} |-> ""]

(***************************************************************************)
(* Python dict operations.                                                 *)
(***************************************************************************)
Has(d, k) == \E i \in DOMAIN d : d[i].key = k

Get(d, k) == d[CHOOSE i \in DOMAIN d : d[i].key = k].value

\* an assignment that keeps the value of a key already present
PutIfAbsent(d, k, v) ==
    IF Has(d, k) THEN d ELSE Append(d, [key |-> k, value |-> v])

Put(d, k, v) ==
    IF Has(d, k)
    THEN [i \in DOMAIN d |-> IF d[i].key = k THEN [key |-> k, value |-> v] ELSE d[i]]
    ELSE Append(d, [key |-> k, value |-> v])

\* an assignment in place of setdefault
SetDefaultOverwrite(d, k, v) == (k :> v) @@ d

SetDefault(d, k, v) == IF k \in DOMAIN d THEN d ELSE d @@ (k :> v)

(***************************************************************************)
(* BedrockConverseToolManager.register_tool                                *)
(***************************************************************************)
\* a sanitizer that replaces the dot as well
sanitized_name_dots(name) ==
    [i \in DOMAIN name |-> IF name[i] \in {"-", "."} THEN "_" ELSE name[i]]

sanitized_name(name) == [i \in DOMAIN name |-> IF name[i] = "-" THEN "_" ELSE name[i]]

ToolDefinition(name, func, description, input_schema) ==
    [function |-> func, description |-> description,
     input_schema |-> input_schema, original_name |-> name]

register_tool(name, func, description, input_schema) ==
    /\ _name_mapping' = Put(_name_mapping, sanitized_name(name), name)
    /\ _tools' = Put(_tools, sanitized_name(name),
                     ToolDefinition(name, func, description, input_schema))
    /\ registered' = Append(registered,
                            ToolDefinition(name, func, description, input_schema))

(***************************************************************************)
(* BedrockConverseToolManager.get_tools                                    *)
(***************************************************************************)
Envelope(input_schema) ==
    IF "json" \in DOMAIN input_schema THEN input_schema ELSE ("json" :> input_schema)

FillDefaults(json) ==
    SetDefault(SetDefault(SetDefault(json, "type", "object"),
                          "properties", "{}"),
               "required", "[]")

InputSchema(input_schema) ==
    [Envelope(input_schema) EXCEPT !["json"] = FillDefaults(@)]

\* setdefault acts on the stored dict itself: the envelope built on line 39
\* holds a reference to it, and an enveloped schema is the stored object.
StoredSchema(input_schema) ==
    IF "json" \in DOMAIN input_schema
    THEN [input_schema EXCEPT !["json"] = FillDefaults(@)]
    ELSE FillDefaults(input_schema)

ToolSpec(entry) ==
    [toolSpec |-> [name |-> entry.key,
                   description |-> entry.value.description,
                   inputSchema |-> InputSchema(entry.value.input_schema)]]

ToolSpecs(d) == [tools |-> [i \in DOMAIN d |-> ToolSpec(d[i])]]

AfterGetTools(d) ==
    [i \in DOMAIN d |->
        [d[i] EXCEPT !.value.input_schema = StoredSchema(@)]]

get_tools ==
    /\ toolConfig' = ToolSpecs(_tools)
    /\ _tools' = AfterGetTools(_tools)

(***************************************************************************)
(* BedrockConverseToolManager.execute_tool and _error_response             *)
(***************************************************************************)
\* str(): of a str the str itself, of an int its digits, of None 'None'
Str(v) == CASE v.t = "str" -> <<v.s>>
            [] v.t = "int" -> <<ToString(v.n)>>
            [] OTHER -> <<"None">>

\* an error envelope without the fixed prefix
_error_response_bare(tool_use_id, error_msg) ==
    [toolUseId |-> tool_use_id,
     content |-> <<[text |-> error_msg]>>,
     status |-> "error"]

_error_response(tool_use_id, error_msg) ==
    [toolUseId |-> tool_use_id,
     content |-> <<[text |-> <<"Error executing tool: ">> \o error_msg]>>,
     status |-> "error"]

SuccessResponse(tool_use_id, result) ==
    [toolUseId |-> tool_use_id,
     content |-> <<[text |-> Str(result)]>>,
     status |-> "success"]

UnknownTool(p) == _error_response(p.toolUseId, <<"Unknown tool: ">> \o p.name)

\* a call that hands the executor the key instead of the original name
ExecutorCallByKey(d, p) ==
    [function |-> Get(d, p.name).function,
     name |-> p.name,
     input |-> p.input]

ExecutorCall(d, p) ==
    [function |-> Get(d, p.name).function,
     name |-> Get(d, p.name).original_name,
     input |-> p.input]

\* a handler for ValueError only
CaughtValueError(class) == class = "ValueError"

\* line 83, except Exception: the classes the handler catches
Caught(class) == class \in {"Exception", "RuntimeError", "ValueError", "KeyError"}

\* what execute_tool returns once the awaited executor has ended
ExecutorOutcome(p, o) ==
    IF o.kind = "return"
    THEN SuccessResponse(p.toolUseId, o.result)
    ELSE _error_response(p.toolUseId, o.message)

\* execute_tool up to its await: the lookup, then the call of the executor
execute_tool_begin(p) ==
    /\ payload' = p
    /\ outcome' = None
    /\ IF ~Has(_tools, p.name)
       THEN /\ tool_result' = UnknownTool(p)
            /\ UNCHANGED calls
       ELSE /\ calls' = Append(calls, ExecutorCall(_tools, p))
            /\ tool_result' = None

\* whether execute_tool returns once the awaited executor has ended as o
Returns(o) == o.kind = "return" \/ Caught(o.class)

\* execute_tool from its await on: the executor returns or raises
execute_tool_end(o) ==
    /\ outcome' = o
    /\ tool_result' = IF Returns(o) THEN ExecutorOutcome(payload, o) ELSE None
    /\ UNCHANGED <<calls, payload>>

(***************************************************************************)
(* Inputs: what the executors and the callers of the registry can supply.  *)
(***************************************************************************)
ToolResults == {[t |-> "str", s |-> "ok"], [t |-> "int", n |-> 7]}

Outcomes == {[kind |-> "return", result |-> r] : r \in ToolResults}
            \cup {[kind |-> "raise", class |-> "RuntimeError", message |-> <<"boom">>]}

Names == {<<"a", "-", "b">>, <<"a", "_", "b">>, <<"a", ".", "b">>}

Sources == {[func |-> "f1", description |-> "d1"], [func |-> "f2", description |-> "d2"]}

Schemas == {EmptyDict,
            ("type" :> "string"),
            ("json" :> ("properties" :> "P")),
            ("json" :> (("type" :> "string") @@ ("properties" :> "P") @@ ("required" :> "R")))}

ToolUseIds == {"t1", "t2"}

Payloads == [toolUseId : ToolUseIds, name : Names, input : {"q"}]

(***************************************************************************)
(* A client of the registry API: any sequence of register_tool, get_tools  *)
(* and execute_tool calls.                                                 *)
(***************************************************************************)
ClientRegister ==
    /\ pc = "client" /\ nops < MaxOps
    /\ \E name \in Names, src \in Sources, input_schema \in Schemas :
           register_tool(name, src.func, src.description, input_schema)
    /\ nops' = nops + 1
    /\ toolConfig' = None
    /\ tool_result' = None /\ payload' = None /\ outcome' = None
    /\ UNCHANGED <<calls, driver, pc, mainvars>>

ClientGetTools ==
    /\ pc = "client" /\ nops < MaxOps
    /\ get_tools
    /\ nops' = nops + 1
    /\ tool_result' = None /\ payload' = None /\ outcome' = None
    /\ UNCHANGED <<_name_mapping, registered, calls, driver, pc, mainvars>>

ClientExecute ==
    /\ pc = "client" /\ nops < MaxOps
    /\ \E p \in Payloads :
          /\ execute_tool_begin(p)
          /\ pc' = IF Has(_tools, p.name) THEN "executor" ELSE "client"
    /\ nops' = nops + 1
    /\ toolConfig' = None
    /\ UNCHANGED <<registry, driver, mainvars>>

ClientExecutorEnds ==
    /\ pc = "executor"
    /\ \E o \in Outcomes :
          /\ execute_tool_end(o)
          /\ pc' = IF Returns(o) THEN "client" ELSE "raised"
    /\ UNCHANGED <<registry, nops, toolConfig, driver, mainvars>>

IdleDriver ==
    /\ messages = <<>> /\ attempt = 0 /\ retry_delay = 0 /\ slept = 0
    /\ attempts = 0 /\ response = None /\ idx = 0 /\ tool_response = <<>>
    /\ ret = None /\ exc = NoError /\ nresp = 0 /\ nprompt = 0 /\ nrounds = 0

EmptyRegistry ==
    /\ _tools = <<>> /\ _name_mapping = <<>> /\ registered = <<>>
    /\ toolConfig = None /\ calls = <<>> /\ tool_result = None /\ payload = None
    /\ outcome = None

RegistryInit ==
    /\ EmptyRegistry /\ IdleDriver
    /\ nops = 0 /\ pc = "client" /\ tools = <<>> /\ regIdx = 0

RegistryNext ==
    \/ ClientRegister
    \/ ClientGetTools
    \/ ClientExecute
    \/ ClientExecutorEnds

RegistrySpec == RegistryInit /\ [][RegistryNext]_vars

(***************************************************************************)
(* Inputs of the conversation: what the MCP server lists, what the user    *)
(* types and what the model endpoint answers.                              *)
(***************************************************************************)
McpTool(name, description, inputSchema) ==
    [name |-> name, description |-> description, inputSchema |-> inputSchema]

ToolLists ==
    {<<McpTool(<<"a", "-", "b">>, "d1", EmptyDict)>>,
     <<McpTool(<<"a", "-", "b">>, "d1", ("type" :> "object")),
       McpTool(<<"a", "_", "b">>, "d2", EmptyDict)>>}

Prompts == {<<"hi">>, <<>>, <<" ">>}

Text(t) == [text |-> <<t>>]

ToolUse(id, name) == [toolUse |-> [toolUseId |-> id, name |-> name, input |-> "q"]]

Known == ToolUse("t1", <<"a", "_", "b">>)

Known2 == ToolUse("t2", <<"a", "_", "b">>)

Unknown == ToolUse("t2", <<"a", "-", "b">>)

Contents ==
    {<<>>, <<Text("a")>>, <<Text("a"), Text("b")>>, <<Known, Text("a")>>,
     <<Known>>, <<Unknown>>, <<Known, Known2>>, <<Unknown, Known>>,
     <<Text("a"), Known, Unknown>>}

StopReasons == {"end_turn", "stop_sequence", "tool_use", "max_tokens"}

EndpointErrors == {"ThrottlingException", "ValidationException"}

Responses ==
    [stopReason : StopReasons,
     output : [message : [role : {"assistant"}, content : Contents]]]

(***************************************************************************)
(* BedrockConverse                                                         *)
(***************************************************************************)
max_retries == 5

InitialDelay == 1

\* a backoff that grows by one time-unit instead of doubling
NextDelayLinear(d) == d + 1

NextDelay(d) == d * 2

\* an invoke that starts the history afresh
invoke_afresh(content) ==
    /\ messages' = <<[role |-> "user", content |-> content]>>
    /\ pc' = "sleep"

\* invoke, lines 44-47: the user message; the task then sleeps (line 48)
invoke(content) ==
    /\ messages' = Append(messages, [role |-> "user", content |-> content])
    /\ pc' = "sleep"

\* the text _handle_response returns for a terminal stop reason
TerminalText(content) ==
    IF content = <<>> THEN <<>>                       \* IndexError
    ELSE IF "text" \in DOMAIN content[1] THEN content[1].text
    ELSE <<>>                                         \* KeyError

\* a request that carries the id of the first request of a session
tool_request_fixed_id(content_item) ==
    [toolUseId |-> "t1",
     name |-> content_item.toolUse.name,
     input |-> content_item.toolUse.input]

tool_request(content_item) ==
    [toolUseId |-> content_item.toolUse.toolUseId,
     name |-> content_item.toolUse.name,
     input |-> content_item.toolUse.input]

ToolResultBlock(result) == [toolResult |-> result]

\* main, lines 90-96: one iteration of the registration loop
MainRegister ==
    /\ pc = "register"
    /\ register_tool(tools[regIdx].name, "call_tool", tools[regIdx].description,
                     ("json" :> tools[regIdx].inputSchema))
    /\ regIdx' = regIdx + 1
    /\ pc' = IF regIdx = Len(tools) THEN "input" ELSE "register"
    /\ UNCHANGED <<nops, toolConfig, execution, driver, tools>>

Blank(prompt) == \A i \in DOMAIN prompt : prompt[i] = " "

\* main, lines 104-106: an empty prompt is read and skipped
MainSkip ==
    /\ pc = "input"
    /\ \E prompt \in Prompts : Blank(prompt)
    /\ UNCHANGED vars

\* main, line 109, invoke_with_prompt and invoke up to its sleep
MainPrompt ==
    /\ pc = "input" /\ nresp < MaxResponses
    /\ \E prompt \in Prompts :
          /\ ~Blank(prompt)
          /\ invoke(<<[text |-> prompt]>>)
    /\ nprompt' = nprompt + 1
    /\ UNCHANGED <<registry, nops, toolConfig, execution, attempt, retry_delay,
                   slept, attempts, response, idx, tool_response, ret, exc, nresp,
                   nrounds, mainvars>>

\* main, lines 112-113
MainInterrupt ==
    /\ pc = "input"
    /\ pc' = "exited"
    /\ UNCHANGED <<registry, nops, toolConfig, execution, driver, mainvars>>

\* _get_converse_response, lines 59-73: the payload and the loop's locals
GetConverseResponse ==
    /\ pc = "sleep"
    /\ get_tools
    /\ attempt' = 0 /\ retry_delay' = InitialDelay
    /\ slept' = 0 /\ attempts' = 0
    /\ pc' = "converse"
    /\ exc' = NoError
    /\ UNCHANGED <<_name_mapping, registered, nops, execution, messages,
                   response, idx, tool_response, ret, nresp, nprompt, nrounds,
                   mainvars>>

\* line 77: client.converse returns a response
ConverseReturns ==
    /\ pc = "converse" /\ nresp < MaxResponses
    /\ \E r \in Responses : response' = r
    /\ attempts' = attempts + 1
    /\ nresp' = nresp + 1
    /\ pc' = "handle"
    /\ UNCHANGED <<registry, nops, toolConfig, execution, messages, attempt,
                   retry_delay, slept, idx, tool_response, ret, exc, nprompt,
                   nrounds, mainvars>>

\* a loop that retries after any error
RetriesAnyError(e, n) == n < max_retries - 1

\* lines 78-87: whether the loop goes on after the endpoint raised e
Retries(e, n) == e = "ThrottlingException" /\ n < max_retries - 1

\* lines 78-87: client.converse raises
ConverseRaises ==
    /\ pc = "converse"
    /\ attempts' = attempts + 1
    /\ \E e \in EndpointErrors :
          /\ exc' = e
          /\ IF Retries(e, attempt)
             THEN /\ slept' = slept + retry_delay
                  /\ retry_delay' = NextDelay(retry_delay)
                  /\ attempt' = attempt + 1
                  /\ UNCHANGED pc
             ELSE /\ pc' = "raised"
                  /\ UNCHANGED <<slept, retry_delay, attempt>>
    /\ UNCHANGED <<registry, nops, toolConfig, execution, messages, response,
                   idx, tool_response, ret, nresp, nprompt, nrounds, mainvars>>

\* a branch taken for every stop reason that is not terminal
RequestsToolsOrOther(stop_reason) == stop_reason \notin {"end_turn", "stop_sequence"}

\* a branch that is never taken
RequestsToolsNever(stop_reason) == FALSE

\* line 108: the stop reason that starts the tool loop
RequestsTools(stop_reason) == stop_reason = "tool_use"

\* _handle_response, lines 99-109 and 123; the locals of the
\* _get_converse_response call that returned the response are gone
HandleResponse ==
    /\ pc = "handle"
    /\ messages' = Append(messages, response.output.message)
    /\ nrounds' = IF response.stopReason = "tool_use" THEN nrounds + 1 ELSE nrounds
    /\ IF response.stopReason \in {"end_turn", "stop_sequence"}
       THEN /\ ret' = StrValue(TerminalText(response.output.message.content))
            /\ pc' = "returned"
            /\ UNCHANGED <<idx, tool_response>>
       ELSE IF RequestsTools(response.stopReason)
       THEN /\ tool_response' = <<>>
            /\ idx' = 1
            /\ pc' = "tools"
            /\ UNCHANGED ret
       ELSE /\ ret' = StrValue(<<>>)
            /\ pc' = "returned"
            /\ UNCHANGED <<idx, tool_response>>
    /\ attempt' = 0 /\ retry_delay' = 0 /\ slept' = 0 /\ attempts' = 0
    /\ UNCHANGED <<registry, nops, toolConfig, execution, response, exc, nresp,
                   nprompt, mainvars>>

Content == response.output.message.content

\* lines 110-111: a content item that is no toolUse block
SkipItem ==
    /\ pc = "tools" /\ idx <= Len(Content)
    /\ "toolUse" \notin DOMAIN Content[idx]
    /\ idx' = idx + 1
    /\ UNCHANGED <<registry, nops, toolConfig, execution, messages, attempt,
                   retry_delay, slept, attempts, response, tool_response, ret, exc,
                   nresp, nprompt, nrounds, pc, mainvars>>

\* lines 111-119 with execute_tool up to its await
ToolUseItem ==
    /\ pc = "tools" /\ idx <= Len(Content)
    /\ "toolUse" \in DOMAIN Content[idx]
    /\ execute_tool_begin(tool_request(Content[idx]))
    /\ IF Has(_tools, Content[idx].toolUse.name)
       THEN /\ pc' = "executor"
            /\ UNCHANGED <<idx, tool_response>>
       ELSE /\ tool_response' = Append(tool_response, ToolResultBlock(tool_result'))
            /\ idx' = idx + 1
            /\ UNCHANGED pc
    /\ UNCHANGED <<registry, nops, toolConfig, messages, attempt, retry_delay,
                   slept, attempts, response, ret, exc, nresp, nprompt, nrounds,
                   mainvars>>

\* execute_tool lines 76-84 and _handle_response line 119
ExecutorEnds ==
    /\ pc = "executor"
    /\ \E o \in Outcomes :
          /\ execute_tool_end(o)
          /\ IF Returns(o)
             THEN /\ tool_response' = Append(tool_response, ToolResultBlock(tool_result'))
                  /\ idx' = idx + 1
                  /\ pc' = "tools"
             ELSE /\ pc' = "raised"
                  /\ UNCHANGED <<idx, tool_response>>
    /\ UNCHANGED <<registry, nops, toolConfig, messages, attempt, retry_delay,
                   slept, attempts, response, ret, exc, nresp, nprompt, nrounds,
                   mainvars>>

\* a return inside the loop body: the loop is left after its first item
LoopEndedAfterFirst(i, content) == i > 1

\* line 110: the for loop has gone through every content item
LoopEnded(i, content) == i > Len(content)

\* line 121: the loop has ended, the results go back to the model
Continue ==
    /\ pc = "tools" /\ LoopEnded(idx, Content)
    /\ invoke(tool_response)
    /\ UNCHANGED <<registry, nops, toolConfig, execution, attempt, retry_delay,
                   slept, attempts, response, idx, tool_response, ret, exc, nresp,
                   nprompt, nrounds, mainvars>>

\* main, line 110: the answer is printed; the loop reads the next prompt
MainPrint ==
    /\ pc = "returned"
    /\ pc' = "input"
    /\ ret' = None /\ response' = None
    /\ UNCHANGED <<registry, nops, toolConfig, execution, messages, attempt,
                   retry_delay, slept, attempts, idx, tool_response, exc, nresp,
                   nprompt, nrounds, mainvars>>

\* main, lines 115-116: the handler is outside the while loop
MainError ==
    /\ pc = "raised"
    /\ pc' = "exited"
    /\ UNCHANGED <<registry, nops, toolConfig, execution, driver, mainvars>>

Init ==
    /\ EmptyRegistry /\ IdleDriver
    /\ nops = 0 /\ pc = "register" /\ tools \in ToolLists /\ regIdx = 1

Next ==
    \/ MainRegister
    \/ MainSkip
    \/ MainPrompt
    \/ MainInterrupt
    \/ GetConverseResponse
    \/ ConverseReturns
    \/ ConverseRaises
    \/ HandleResponse
    \/ SkipItem
    \/ ToolUseItem
    \/ ExecutorEnds
    \/ Continue
    \/ MainPrint
    \/ MainError

Spec == Init /\ [][Next]_vars

\* The driver is one asyncio task: the event loop resumes it whenever it is
\* ready, so each of its own steps is taken once it stays enabled (the
\* sleep of line 48 ends, the for loop of line 110 advances). Nothing is
\* assumed of the endpoint, of the executors or of the user.
LiveSpec ==
    /\ Spec
    /\ WF_vars(GetConverseResponse)
    /\ WF_vars(HandleResponse)
    /\ WF_vars(SkipItem)
    /\ WF_vars(ToolUseItem)
    /\ WF_vars(Continue)

(***************************************************************************)
(* Properties                                                              *)
(***************************************************************************)
Terminal == {"end_turn", "stop_sequence"}

IsText(block) == "text" \in DOMAIN block

IsToolUse(block) == "toolUse" \in DOMAIN block

FirstText(content) ==
    IF SelectSeq(content, IsText) = <<>> THEN <<>>
    ELSE Head(SelectSeq(content, IsText)).text

ToolUses(content) == SelectSeq(content, IsToolUse)

\* C1: for a response with stop reason end_turn or stop_sequence, invoke
\* returns the text of the first text block of the content, wherever that
\* block stands, and the empty string only when there is no text block.
C1_FirstTextBlock ==
    (pc = "returned" /\ response.stopReason \in Terminal)
        => ret = StrValue(FirstText(response.output.message.content))

\* C2: after a tool_use response the message appended next to the assistant
\* message is one user message holding one toolResult per toolUse block, in
\* the order of the requests and with their ids; the endpoint is not invoked
\* between the response and that message.
C2_ToolResultsTurn ==
    /\ pc \in {"tools", "executor"}
          => /\ attempts = 0
             /\ response.stopReason = "tool_use"
             /\ messages[Len(messages)] = response.output.message
    /\ (pc \in {"sleep", "converse"} /\ response # None)
          => LET n == Len(messages)
                 uses == ToolUses(response.output.message.content)
                 results == messages[n].content
             IN /\ response.stopReason = "tool_use"
                /\ n >= 2
                /\ messages[n - 1] = response.output.message
                /\ messages[n].role = "user"
                /\ Len(results) = Len(uses)
                /\ \A j \in DOMAIN uses :
                      /\ DOMAIN results[j] = {"toolResult"}
                      /\ results[j].toolResult.toolUseId = uses[j].toolUse.toolUseId

\* the model is invoked again after a turn of two results, the unknown tool first
C2_Witness ==
    /\ pc = "converse" /\ attempts = 1 /\ response # None
    /\ Len(ToolUses(response.output.message.content)) = 2
    /\ Len(messages[Len(messages)].content) = 2
    /\ messages[Len(messages)].content[1].toolResult.toolUseId = "t2"
    /\ messages[Len(messages)].content[2].toolResult.toolUseId = "t1"

\* C3: a model invocation that succeeds on attempt k (1..5) after k-1
\* rate-limit errors has slept 2^(k-1) - 1 time-units; after 5 rate-limit
\* errors the error propagates, with 5 attempts and no sleep after the fifth.
C3_RetryBackoff ==
    /\ attempts <= 5
    /\ pc = "handle" => (attempts \in 1..5 /\ slept = 2^(attempts - 1) - 1)
    /\ (pc = "raised" /\ exc = "ThrottlingException")
          => (attempts = 5 /\ slept = 15)

\* the fifth attempt succeeds after 1+2+4+8 time-units of backoff
C3_Witness == pc = "handle" /\ attempts = 5 /\ slept = 15

\* C4: an executor that raises makes execute_tool return the error envelope
\* with the message of the failure and the id of the request; the driver then
\* goes on with the next content item and, after the last, invokes the model.
C4_ExecutorFailureAbsorbed ==
    [][/\ pc = "executor"
            => /\ pc' = "tools"
               /\ idx' = idx + 1
               /\ tool_response' = Append(tool_response, [toolResult |-> tool_result'])
               /\ outcome'.kind = "raise"
                     => tool_result' =
                          [toolUseId |-> payload.toolUseId,
                           content |-> <<[text |-> <<"Error executing tool: ">>
                                                    \o outcome'.message]>>,
                           status |-> "error"]
       /\ (pc = "tools" /\ idx > Len(response.output.message.content))
            => pc' = "sleep"]_vars

\* the model has answered the turn that reports a failed executor
C4_Witness ==
    /\ pc = "handle" /\ nresp = 2
    /\ outcome # None /\ outcome.kind = "raise"
    /\ tool_result.status = "error"

LastIndex(S) == CHOOSE i \in S : \A j \in S : j <= i

\* the arguments of the last register_tool call whose name has key k
LastByKey(k) ==
    registered[LastIndex({i \in DOMAIN registered :
                            sanitized_name(registered[i].original_name) = k})]

\* the arguments of the last register_tool call with name n
LastByName(n) ==
    registered[LastIndex({i \in DOMAIN registered : registered[i].original_name = n})]

RegisteredNames == {registered[i].original_name : i \in DOMAIN registered}

\* C5: execute_tool with a name that is no key returns the error envelope
\* "Error executing tool: Unknown tool: <name>" with the id of the request,
\* calls no executor and leaves the registry as it was.
C5_UnknownTool ==
    [][(pc = "client" /\ nops' = nops + 1 /\ payload' # None
            /\ ~Has(_tools, payload'.name))
         => /\ tool_result' =
                 [toolUseId |-> payload'.toolUseId,
                  content |-> <<[text |-> <<"Error executing tool: ", "Unknown tool: ">>
                                           \o payload'.name]>>,
                  status |-> "error"]
            /\ calls' = calls
            /\ pc' = "client"
            /\ _tools' = _tools
            /\ _name_mapping' = _name_mapping]_vars

\* an unknown name was asked of a registry that holds a tool
C5_Witness ==
    /\ pc = "client" /\ payload # None /\ _tools # <<>>
    /\ ~Has(_tools, payload.name)
    /\ payload.toolUseId = "t2"
    /\ tool_result # None /\ tool_result.status = "error"

HasOwnEntry(n) ==
    /\ Has(_tools, sanitized_name(n))
    /\ ExecutorCall(_tools, [toolUseId |-> "t1", name |-> sanitized_name(n), input |-> "q"])
         = [function |-> LastByName(n).function, name |-> n, input |-> "q"]

HyphenVariants(n, m) ==
    /\ Len(n) = Len(m)
    /\ \A i \in DOMAIN n : n[i] = m[i] \/ {n[i], m[i]} = {"-", "_"}

ResultText(r) == IF r.t = "str" THEN <<r.s>> ELSE IF r.n = 7 THEN <<"7">> ELSE <<"?">>

\* C7: execute_tool with the key of a registered tool calls the executor of
\* that key once, with the original name as registered and the input of the
\* request; when the executor returns, the result is the success envelope
\* with the stringified result and the id of the request.
C7_Dispatch ==
    [][/\ (pc = "client" /\ nops' = nops + 1 /\ payload' # None
              /\ Has(_tools, payload'.name))
            => /\ calls' = Append(calls,
                        [function |-> LastByKey(payload'.name).function,
                         name |-> LastByKey(payload'.name).original_name,
                         input |-> payload'.input])
               /\ pc' = "executor"
       /\ pc = "executor"
            => /\ calls' = calls
               /\ outcome'.kind = "return"
                     => tool_result' =
                          [toolUseId |-> payload.toolUseId,
                           content |-> <<[text |-> ResultText(outcome'.result)]>>,
                           status |-> "success"]
       /\ calls' # calls => (pc = "client" /\ pc' = "executor")]_vars

\* a tool registered as a-b was called under its key a_b and returned 7
C7_Witness ==
    /\ pc = "client" /\ tool_result # None /\ tool_result.status = "success"
    /\ tool_result.content[1].text = <<"7">>
    /\ payload.name = <<"a", "_", "b">>
    /\ Len(calls) = 1 /\ calls[1].name = <<"a", "-", "b">>

DefaultOf(k) == CASE k = "type" -> "object"
                  [] k = "properties" -> "{}"
                  [] OTHER -> "[]"

\* the schema a caller registered, without its envelope
Given(input_schema) ==
    IF "json" \in DOMAIN input_schema THEN input_schema["json"] ELSE input_schema

\* C8: every tool spec of get_tools has its schema under 'json', with type,
\* properties and required: the registered value where the caller gave one,
\* the default (object, {}, []) where not.
C8_SpecDefaults ==
    toolConfig # None
      => /\ Len(toolConfig.tools) = Len(_tools)
         /\ \A i \in DOMAIN toolConfig.tools :
               LET sp == toolConfig.tools[i].toolSpec
                   given == Given(LastByKey(sp.name).input_schema)
               IN /\ "json" \in DOMAIN sp.inputSchema
                  /\ \A k \in {"type", "properties", "required"} :
                        /\ k \in DOMAIN sp.inputSchema["json"]
                        /\ sp.inputSchema["json"][k] =
                             IF k \in DOMAIN given THEN given[k] ELSE DefaultOf(k)

\* get_tools has listed a tool registered with a bare schema that sets type
C8_Witness ==
    /\ toolConfig # None
    /\ \E i \in DOMAIN toolConfig.tools :
          LastByKey(toolConfig.tools[i].toolSpec.name).input_schema = ("type" :> "string")

\* C9: after N prompts, each answered without tool use and without error,
\* the history holds 2N messages, user and assistant in turn.
C9_TwoMessagesPerTurn ==
    (pc \in {"input", "returned"} /\ nrounds = 0)
      => /\ Len(messages) = 2 * nprompt
         /\ \A i \in DOMAIN messages :
               messages[i].role = IF i % 2 = 1 THEN "user" ELSE "assistant"

\* two prompts have been answered
C9_Witness == pc = "input" /\ nprompt = 2 /\ nrounds = 0

\* C10: an endpoint error other than the rate-limit error propagates at
\* once: no sleep follows it and no further attempt is made.
C10_NoRetryOnOtherError ==
    [][/\ (pc = "converse" /\ attempts' = attempts + 1
              /\ exc' \notin {NoError, "ThrottlingException"})
            => (pc' = "raised" /\ slept' = slept)
       /\ pc = "raised"
            => (pc' = "exited" /\ attempts' = attempts /\ slept' = slept)]_vars

\* the third attempt failed with another error after two rate-limit errors
C10_Witness ==
    pc = "raised" /\ exc = "ValidationException" /\ attempts = 3 /\ slept = 3

\* C11: a response whose stop reason is none of end_turn, stop_sequence and
\* tool_use ends the call: invoke returns '', no tool is executed whatever
\* the content holds, and the endpoint is not invoked again for the prompt.
C11_OtherStopIsTerminal ==
    [][/\ (pc = "handle"
              /\ response.stopReason \notin {"end_turn", "stop_sequence", "tool_use"})
            => /\ pc' = "returned"
               /\ ret' = StrValue(<<>>)
               /\ calls' = calls
               /\ tool_result' = tool_result
               /\ messages' = Append(messages, response.output.message)
       /\ pc = "returned"
            => /\ pc' = "input"
               /\ calls' = calls
               /\ messages' = messages
               /\ nresp' = nresp]_vars

\* a max_tokens response that holds a toolUse block has been answered with ''
C11_Witness ==
    /\ pc = "returned" /\ response.stopReason = "max_tokens"
    /\ ToolUses(response.output.message.content) # <<>>
    /\ ret = StrValue(<<>>) /\ calls = <<>>

RECURSIVE FirstKeys(_)
\* the keys of the register_tool calls of a log, each once, in the order in
\* which they were first registered
FirstKeys(log) ==
    IF log = <<>> THEN <<>>
    ELSE LET before == FirstKeys(SubSeq(log, 1, Len(log) - 1))
             k == sanitized_name(log[Len(log)].original_name)
         IN IF \E i \in DOMAIN before : before[i] = k THEN before
            ELSE Append(before, k)

\* C12: of the registrations that share a sanitized key the last one wins:
\* get_tools lists one spec per key, in the order in which the keys were
\* first registered, with the description and the schema of the last
\* registration of the key, and execute_tool with the key calls the executor
\* of the last registration with its original name.
C12_LastRegistrationWins ==
    /\ toolConfig # None
         => /\ [i \in DOMAIN toolConfig.tools |-> toolConfig.tools[i].toolSpec.name]
                  = FirstKeys(registered)
            /\ \A i \in DOMAIN toolConfig.tools :
                  LET sp == toolConfig.tools[i].toolSpec
                      last == LastByKey(sp.name)
                  IN /\ sp.description = last.description
                     /\ \A k \in DOMAIN Given(last.input_schema) :
                           sp.inputSchema["json"][k] = Given(last.input_schema)[k]
    /\ pc = "executor"
         => /\ calls[Len(calls)].function = LastByKey(payload.name).function
            /\ calls[Len(calls)].name = LastByKey(payload.name).original_name

\* get_tools has listed one spec for two registrations, a-b with one
\* description and a_b with another, and the spec has the second description
C12_Witness ==
    /\ toolConfig # None /\ Len(registered) = 2 /\ Len(toolConfig.tools) = 1
    /\ registered[1].original_name # registered[2].original_name
    /\ registered[1].description # registered[2].description
    /\ registered[1].input_schema # registered[2].input_schema
    /\ toolConfig.tools[1].toolSpec.description = registered[2].description

\* C13: get_tools is a pure projection of the registry: it leaves every
\* stored tool definition as it was, so that the stored schema of a key is
\* always the schema passed to the last register_tool call of the key, and
\* two get_tools calls with no call between them return equal results.
C13_GetToolsPure ==
    /\ [](\A i \in DOMAIN _tools :
            _tools[i].value.input_schema = LastByKey(_tools[i].key).input_schema)
    /\ [][(pc = "client" /\ nops' = nops + 1 /\ toolConfig' # None)
            => /\ _tools' = _tools
               /\ toolConfig # None => toolConfig' = toolConfig]_vars

IsPrefix(s, t) == Len(s) <= Len(t) /\ SubSeq(t, 1, Len(s)) = s

\* C14: the history is append-only: in every step, the steps in which an
\* endpoint error propagates included, the history before the step is a
\* prefix of the history after it.
C14_HistoryAppendOnly == [][IsPrefix(messages, messages')]_vars

\* an endpoint error has propagated with three messages in the history
C14_Witness == pc = "raised" /\ exc \in EndpointErrors /\ Len(messages) >= 3

\* C15: at most one tool execution or model invocation is in flight: an
\* executor call starts only when the results of all earlier toolUse blocks
\* of the message have been collected, nothing else starts while it runs,
\* and the next model invocation starts only when every toolUse block of
\* the message has its result.
C15_OneInFlight ==
    [][/\ calls' # calls
            => /\ pc = "tools" /\ pc' = "executor"
               /\ Len(calls') = Len(calls) + 1
               /\ Len(tool_response) = Len(ToolUses(SubSeq(Content, 1, idx - 1)))
       /\ pc = "executor"
            => /\ calls' = calls /\ attempts' = attempts /\ messages' = messages
               /\ pc' = "tools" => Len(tool_response') = Len(tool_response) + 1
       /\ attempts' > attempts
            => /\ pc = "converse" /\ attempts' = attempts + 1
               /\ calls' = calls
               /\ (payload # None /\ Has(_tools, payload.name)) => outcome # None
       /\ (pc = "tools" /\ pc' = "sleep")
            => Len(tool_response) = Len(ToolUses(Content))]_vars

\* two executor calls of one message have ended, one after the other, and
\* the driver is about to invoke the model with both results
C15_Witness ==
    /\ pc = "sleep" /\ Len(calls) = 2 /\ Len(tool_response) = 2
    /\ Len(ToolUses(Content)) = 2 /\ outcome # None

\* C16: the mapping from sanitized key to original name is stable: once a
\* key maps to an original name, in _name_mapping and in the stored
\* original_name, no later call makes the key map to another name.
C16_MappingStable ==
    [][\A i \in DOMAIN _name_mapping :
          LET k == _name_mapping[i].key
          IN /\ Has(_name_mapping', k) /\ Has(_tools', k)
             /\ Get(_name_mapping', k) = Get(_name_mapping, k)
             /\ Get(_tools', k).original_name = Get(_tools, k).original_name]_vars

Identifier == {"a", "b", "c", "d", "e", "f", "g", "h", "i", "j", "k", "l", "m",
               "n", "o", "p", "q", "r", "s", "t", "u", "v", "w", "x", "y", "z",
               "0", "1", "2", "3", "4", "5", "6", "7", "8", "9", "_"}

IdentifierSafe(name) == \A i \in DOMAIN name : name[i] \in Identifier

\* C17: every key of the registry, and every tool name get_tools returns,
\* is identifier-safe: it holds letters, digits and underscores only.
C17_KeysIdentifierSafe ==
    /\ \A i \in DOMAIN _tools : IdentifierSafe(_tools[i].key)
    /\ \A i \in DOMAIN _name_mapping : IdentifierSafe(_name_mapping[i].key)
    /\ toolConfig # None
         => \A i \in DOMAIN toolConfig.tools :
               IdentifierSafe(toolConfig.tools[i].toolSpec.name)

\* C18: in a call of invoke_with_prompt out of which no endpoint error
\* propagates, the driver invokes the model again after every tool_use
\* response, and returns once the model has answered with another stop
\* reason; when it returns, the responses received are one more than the
\* tool-use round trips, and the history has two messages per response.
C18_ReturnsAfterRounds ==
    /\ [](pc = "returned"
            => /\ nresp = nrounds + nprompt
               /\ Len(messages) = 2 * nresp)
    /\ (pc = "handle" /\ response.stopReason # "tool_use") ~> pc = "returned"
    /\ (pc = "tools" /\ LoopEnded(idx, Content)) ~> pc = "converse"

\* a prompt has been answered after one tool-use round trip
C18_Witness ==
    /\ pc = "returned" /\ nprompt = 1 /\ nrounds = 1 /\ nresp = 2
    /\ Len(messages) = 4 /\ Len(calls) >= 1

\* C19: when an endpoint failure propagates out of invoke_with_prompt, the
\* loop of main reports it and goes on: the loop is still running and waits
\* for the next prompt, which it will submit to the same driver.
C19_LoopSurvivesError ==
    [][pc = "raised" => (pc' = "input" /\ messages' = messages)]_vars

\* C20: whenever no call of the driver is in progress, after a return as
\* after a propagated error, the history alternates between user and
\* assistant, starts with user and ends with assistant: no prompt is left
\* in it without an answer.
C20_IdleHistoryAlternates ==
    pc \in {"register", "input", "raised", "exited"}
        => /\ \A i \in DOMAIN messages :
                 messages[i].role = IF i % 2 = 1 THEN "user" ELSE "assistant"
           /\ messages # <<>> => messages[Len(messages)].role = "assistant"

====
